---- MODULE Spec2Model ----
(***************************************************************************)
(* A model of the windy-station client library (src/src/lib.rs): the       *)
(* WindyStation client, its two operations register_stations and           *)
(* record_observations, and the serde serialization of Station,            *)
(* StationVisibility and Observation.                                      *)
(*                                                                         *)
(* JSON documents are modelled as trees, an object being the sequence of   *)
(* its <<key, value>> members in the order they are written.  Strings are  *)
(* TLA+ strings.  An f32 is modelled by its shortest decimal text, with    *)
(* the three non-finite values "NaN", "inf" and "-inf"; a DateTime<Utc> by *)
(* its RFC 3339 text.  Option<T> is <<>> for None and <<v>> for Some(v).   *)
(***************************************************************************)
EXTENDS Integers, Sequences, FiniteSets, TLC

VARIABLES
    client,     \* the WindyStation value: api_key, client (transport handle), base_url
    built_by,   \* how the WindyStation value was constructed
    calls,      \* one record per call of an operation on the client
    value,      \* the value handed to the serializer
    wire,       \* the JSON the serializer produced from value
    back        \* what the deserializer produced from wire

vars == <<client, built_by, calls, value, wire, back>>

---------------------------------------------------------------------------
(* Bounds of the model *)

NumCalls == 2

MaxItems == 2

CallIds == 1..NumCalls

---------------------------------------------------------------------------
(* Option<T> *)

None == <<>>

Some(v) == <<v>>

Option(S) == {None} \cup {Some(v) : v \in S}

IsNone(opt) == opt = None

---------------------------------------------------------------------------
(* JSON values, as serde_json writes them *)

JNull == [j |-> "null"]

JInt(n) == [j |-> "number", int |-> n]

JFloat(f) == [j |-> "number", float |-> f]

JStr(s) == [j |-> "string", str |-> s]

JArr(items) == [j |-> "array", items |-> items]

JObj(members) == [j |-> "object", members |-> members]

NoJson == [j |-> "none"]

IsFinite(f) == f \notin {"NaN", "inf", "-inf"}

\* serde_json writes a non-finite float as null
SerializeF32(f) == IF IsFinite(f) THEN JFloat(f) ELSE JNull

\* u8, u16 and u32 are written as JSON integers
SerializeUInt(n) == JInt(n)

SerializeString(s) == JStr(s)

SerializeDateTime(t) == JStr(t)

\* Option<T>: None is written as null, Some(v) as v
SerializeOptionUInt(opt) == IF IsNone(opt) THEN JNull ELSE SerializeUInt(opt[1])

SerializeOptionF32(opt) == IF IsNone(opt) THEN JNull ELSE SerializeF32(opt[1])

SerializeOptionDateTime(opt) == IF IsNone(opt) THEN JNull ELSE SerializeDateTime(opt[1])

---------------------------------------------------------------------------
(* StationVisibility *)

StationVisibility == {"Open", "OnlyWindy", "Private"}

VisibilityTokenNoRename(v) == v

\* the variant's name, unless renamed
VisibilityToken(v) == IF v = "OnlyWindy" THEN "Only Windy" ELSE v

SerializeVisibility(v) == JStr(VisibilityToken(v))

DeserializeError == "unknown variant"

\* the derived Deserialize: the token of a variant, or an error
DeserializeVisibility(json) ==
    IF json.j # "string" THEN DeserializeError
    ELSE IF json.str = "Open" THEN "Open"
    ELSE IF json.str = "Only Windy" THEN "OnlyWindy"
    ELSE IF json.str = "Private" THEN "Private"
    ELSE DeserializeError

---------------------------------------------------------------------------
(* Station *)

SerializeStationNoRename(s) ==
    JObj(<< <<"id", SerializeUInt(s.id)>>,
            <<"visibility", SerializeVisibility(s.visibility)>>,
            <<"name", SerializeString(s.name)>>,
            <<"latitude", SerializeF32(s.latitude)>>,
            <<"longitude", SerializeF32(s.longitude)>>,
            <<"elevation", SerializeUInt(s.elevation)>>,
            <<"temp_height", SerializeUInt(s.temp_height)>>,
            <<"wind_height", SerializeUInt(s.wind_height)>> >>)

SerializeStation(s) ==
    JObj(<< <<"station", SerializeUInt(s.id)>>,
            <<"visibility", SerializeVisibility(s.visibility)>>,
            <<"name", SerializeString(s.name)>>,
            <<"latitude", SerializeF32(s.latitude)>>,
            <<"longitude", SerializeF32(s.longitude)>>,
            <<"elevation", SerializeUInt(s.elevation)>>,
            <<"tempheight", SerializeUInt(s.temp_height)>>,
            <<"windheight", SerializeUInt(s.wind_height)>> >>)

\* &[Station]: a JSON array, one element per station, in order
SerializeStations(stations) ==
    JArr([i \in 1..Len(stations) |-> SerializeStation(stations[i])])

\* the station of tests::register_stations
TestStation ==
    [id |-> 0, visibility |-> "Open", name |-> "test-station",
     latitude |-> "49.28273", longitude |-> "-123.120735",
     elevation |-> 62, temp_height |-> 1, wind_height |-> 2]

Stations ==
    [id : {0, 7}, visibility : StationVisibility, name : {"test-station", ""},
     latitude : {"49.28273", "NaN"}, longitude : {"-123.120735", "-inf"},
     elevation : {62}, temp_height : {1}, wind_height : {2}]

---------------------------------------------------------------------------
(* Observation *)

NeverSkip(opt) == FALSE

\* skip_serializing_if = "Option::is_none"
SkipSerializingIf(opt) == IsNone(opt)

\* one field of the derived Serialize: skipped, or written under its name
Field(key, opt, json) ==
    IF SkipSerializingIf(opt) THEN <<>> ELSE << <<key, json>> >>

SerializeObservation(o) ==
    JObj(Field("station", o.station_id, SerializeOptionUInt(o.station_id))
         \o Field("time", o.time, SerializeOptionDateTime(o.time))
         \o Field("temp", o.temperature, SerializeOptionF32(o.temperature))
         \o Field("wind", o.wind_speed, SerializeOptionF32(o.wind_speed))
         \o Field("winddir", o.wind_direction, SerializeOptionUInt(o.wind_direction))
         \o Field("gust", o.wind_gust, SerializeOptionF32(o.wind_gust))
         \o Field("rh", o.relative_humidity, SerializeOptionF32(o.relative_humidity))
         \o Field("dewpoint", o.dew_point, SerializeOptionF32(o.dew_point))
         \o Field("pressure", o.pressure, SerializeOptionF32(o.pressure))
         \o Field("precip", o.precipitation, SerializeOptionF32(o.precipitation))
         \o Field("uv", o.uv_index, SerializeOptionUInt(o.uv_index)))

\* &[Observation]: a JSON array, one element per observation, in order
SerializeObservations(observations) ==
    JArr([i \in 1..Len(observations) |-> SerializeObservation(observations[i])])

\* Observation::default(): every field None
DefaultObservation ==
    [station_id |-> None, time |-> None, temperature |-> None, wind_speed |-> None,
     wind_direction |-> None, wind_gust |-> None, relative_humidity |-> None,
     dew_point |-> None, pressure |-> None, precipitation |-> None, uv_index |-> None]

\* the observation of tests::simple_report
SimpleReport ==
    [DefaultObservation EXCEPT !.temperature = Some("-1.2"),
                               !.relative_humidity = Some("99.0")]

\* the observation of tests::complete_report
CompleteReport ==
    [station_id |-> Some(1), time |-> Some("2014-10-24T00:03:41.636Z"),
     temperature |-> Some("-1.2"), wind_speed |-> Some("25.0"),
     wind_direction |-> Some(182), wind_gust |-> Some("35.0"),
     relative_humidity |-> Some("96.0"), dew_point |-> Some("1.0"),
     pressure |-> Some("1021000.0"), precipitation |-> Some("2.4"),
     uv_index |-> Some(1)]

\* a wind direction outside 0..359, which a u16 holds
OutOfRangeReport ==
    [DefaultObservation EXCEPT !.station_id = Some(1), !.wind_direction = Some(360)]

Observations ==
    [station_id : Option({1}), time : Option({"2014-10-24T00:03:41.636Z"}),
     temperature : Option({"-1.2", "NaN"}), wind_speed : Option({"25.0"}),
     wind_direction : Option({182, 360}), wind_gust : Option({"35.0"}),
     relative_humidity : Option({"99.0"}), dew_point : Option({"1.0"}),
     pressure : Option({"1021000.0"}), precipitation : Option({"2.4"}),
     uv_index : Option({1})]

---------------------------------------------------------------------------
(* WindyStation: construction *)

DefaultBaseUrl == "https://stations.windy.com/pws/update"

\* mockito::server_url()
MockServerUrl == "http://127.0.0.1:1234"

\* Client::new(), and a client the caller supplies
DefaultClient == "Client::new()"

SuppliedClient == "supplied"

WithClient(api_key, cl) ==
    [api_key |-> api_key, client |-> cl, base_url |-> DefaultBaseUrl]

New(api_key) == WithClient(api_key, DefaultClient)

\* tests::get_api
GetApi == [api_key |-> "test-api-key", client |-> DefaultClient, base_url |-> MockServerUrl]

\* API keys: any String, among them keys with characters a URL gives a meaning to
ApiKeys == {"test-api-key", "a/b", "k?x=1#f", "a b%", ""}

---------------------------------------------------------------------------
(* WindyStation: the request *)

EscapeChar(ch) ==
    IF ch = "/" THEN "%2F"
    ELSE IF ch = "?" THEN "%3F"
    ELSE IF ch = "#" THEN "%23"
    ELSE IF ch = " " THEN "%20"
    ELSE IF ch = "%" THEN "%25"
    ELSE ch

RECURSIVE Escape(_)
Escape(s) == IF Len(s) = 0 THEN "" ELSE EscapeChar(SubSeq(s, 1, 1)) \o Escape(SubSeq(s, 2, Len(s)))

EscapedPostUrl(base_url, api_key) == base_url \o "/" \o Escape(api_key)

\* format!("{}/{}", self.base_url, self.api_key)
PostUrl(base_url, api_key) == base_url \o "/" \o api_key

\* self.client.post(url): a POST request to url, with no body yet
PostRequestBuilder(cl) ==
    [method |-> "POST", url |-> PostUrl(cl.base_url, cl.api_key),
     content_type |-> "", body |-> NoJson]

\* RequestBuilder::json: the body is the value's JSON, the content type JSON
Json(builder, body) ==
    [builder EXCEPT !.content_type = "application/json", !.body = body]

RegisterStationsRequestMisnamed(stations) ==
    JObj(<< <<"observations", SerializeStations(stations)>> >>)

RegisterStationsRequest(stations) ==
    JObj(<< <<"stations", SerializeStations(stations)>> >>)

RecordObservationsRequest(observations) ==
    JObj(<< <<"observations", SerializeObservations(observations)>> >>)

NoRequest == [method |-> "", url |-> "", content_type |-> "", body |-> NoJson]

---------------------------------------------------------------------------
(* WindyStation: the response *)

\* what send() resolves to: a transport failure, or a response
TransportFailure == [delivered |-> FALSE, status |-> 0, content_type |-> "", body |-> ""]

Response(status, payload) ==
    [delivered |-> TRUE, status |-> status,
     content_type |-> payload.content_type, body |-> payload.body]

NoOutcome == [delivered |-> FALSE, status |-> -1, content_type |-> "", body |-> ""]

\* StatusCode::is_client_error, StatusCode::is_server_error
IsClientError(status) == status >= 400 /\ status < 500

IsServerError(status) == status >= 500 /\ status < 600

ErrorForStatusServerOnly(status) == IsServerError(status)

\* Response::error_for_status: an error exactly for a 4xx or 5xx status
ErrorForStatus(status) == IsClientError(status) \/ IsServerError(status)

ResultOfBody(outcome) ==
    IF ~outcome.delivered THEN "Err(transport)"
    ELSE IF ErrorForStatus(outcome.status) \/ outcome.body = "error" THEN "Err(status)"
    ELSE "Ok"

\* send().await? .error_for_status() .map(|_response| ()) .map_err(|e| e.into())
ResultOf(outcome) ==
    IF ~outcome.delivered THEN "Err(transport)"
    ELSE IF ErrorForStatus(outcome.status) THEN "Err(status)"
    ELSE "Ok"

---------------------------------------------------------------------------
(* The inputs and the outcomes the model draws from *)

SeqsUpTo(S, n) == UNION {[1..k -> S] : k \in 0..n}

\* a station whose position is not a finite number, shared with Windy only
UnplacedStation ==
    [id |-> 7, visibility |-> "OnlyWindy", name |-> "",
     latitude |-> "NaN", longitude |-> "-inf",
     elevation |-> 62, temp_height |-> 1, wind_height |-> 2]

StationLists == SeqsUpTo({TestStation, UnplacedStation}, MaxItems)

ObservationLists == SeqsUpTo({DefaultObservation, SimpleReport, OutOfRangeReport}, MaxItems)

SampleStationLists == {<<>>, <<TestStation, UnplacedStation>>}

SampleObservationLists == {<<>>, <<DefaultObservation, OutOfRangeReport>>}

\* the status codes a response can carry (http::StatusCode: 100..999), at and around
\* the borders of the classes
Statuses ==
    {100, 101, 199, 200, 201, 204, 299, 300, 301, 304, 399,
     400, 404, 499, 500, 503, 599, 600, 999}

SampleStatuses == {200, 204, 304, 500}

\* response content type and body
Payloads ==
    {[content_type |-> "text/html; charset=utf-8", body |-> "SUCCESS"],
     [content_type |-> "application/json", body |-> "error"]}

Outcomes == {TransportFailure} \cup {Response(st, p) : st \in Statuses, p \in Payloads}

SampleOutcomes == {TransportFailure} \cup {Response(st, p) : st \in SampleStatuses, p \in Payloads}

---------------------------------------------------------------------------
(* The calls *)

IdleCall ==
    [pc |-> "idle", op |-> "", input |-> <<>>, request |-> NoRequest, sends |-> 0,
     outcome |-> NoOutcome, result |-> "pending"]

\* the call up to its only suspension, send().await: the request is built and sent
Awaiting(call, op, input, request) ==
    [call EXCEPT !.pc = "awaiting", !.op = op, !.input = input,
                 !.request = request, !.sends = call.sends + 1]

\* the call from its resumption to its return
Returned(call, outcome) ==
    [call EXCEPT !.pc = "done", !.outcome = outcome, !.result = ResultOf(outcome)]

RegisterStationsInPlace(c, stations) ==
    /\ calls[c].pc = "idle"
    /\ client' = [client EXCEPT !.base_url = PostUrl(client.base_url, client.api_key)]
    /\ calls' = [calls EXCEPT ![c] =
           Awaiting(calls[c], "register_stations", stations,
                    Json([method |-> "POST", url |-> client'.base_url,
                          content_type |-> "", body |-> NoJson],
                         RegisterStationsRequest(stations)))]
    /\ UNCHANGED <<built_by, value, wire, back>>

RegisterStations(c, stations) ==
    /\ calls[c].pc = "idle"
    /\ calls' = [calls EXCEPT ![c] =
           Awaiting(calls[c], "register_stations", stations,
                    Json(PostRequestBuilder(client), RegisterStationsRequest(stations)))]
    /\ UNCHANGED <<client, built_by, value, wire, back>>

RegisterStationsRetry(c, outcome) ==
    /\ calls[c].pc = "awaiting"
    /\ calls[c].op = "register_stations"
    /\ calls' = [calls EXCEPT ![c] =
           IF ResultOf(outcome) # "Ok" /\ calls[c].sends < 2
           THEN [calls[c] EXCEPT !.sends = calls[c].sends + 1]
           ELSE Returned(calls[c], outcome)]
    /\ UNCHANGED <<client, built_by, value, wire, back>>

RegisterStationsReturn(c, outcome) ==
    /\ calls[c].pc = "awaiting"
    /\ calls[c].op = "register_stations"
    /\ calls' = [calls EXCEPT ![c] = Returned(calls[c], outcome)]
    /\ UNCHANGED <<client, built_by, value, wire, back>>

RecordObservationsRejectEmpty(c, observations) ==
    /\ calls[c].pc = "idle"
    /\ calls' = [calls EXCEPT ![c] =
           IF observations = <<>>
           THEN [calls[c] EXCEPT !.pc = "done", !.op = "record_observations",
                                 !.input = observations, !.result = "Err(empty)"]
           ELSE Awaiting(calls[c], "record_observations", observations,
                         Json(PostRequestBuilder(client),
                              RecordObservationsRequest(observations)))]
    /\ UNCHANGED <<client, built_by, value, wire, back>>

RecordObservations(c, observations) ==
    /\ calls[c].pc = "idle"
    /\ calls' = [calls EXCEPT ![c] =
           Awaiting(calls[c], "record_observations", observations,
                    Json(PostRequestBuilder(client), RecordObservationsRequest(observations)))]
    /\ UNCHANGED <<client, built_by, value, wire, back>>

RecordObservationsReturn(c, outcome) ==
    /\ calls[c].pc = "awaiting"
    /\ calls[c].op = "record_observations"
    /\ calls' = [calls EXCEPT ![c] = Returned(calls[c], outcome)]
    /\ UNCHANGED <<client, built_by, value, wire, back>>

---------------------------------------------------------------------------
(* Serialization and deserialization on their own *)

NoValue == [ty |-> "none", val |-> ""]

ToJson ==
    /\ value.ty # "none"
    /\ wire.j = "none"
    /\ wire' = IF value.ty = "StationVisibility" THEN SerializeVisibility(value.val)
               ELSE IF value.ty = "Station" THEN SerializeStation(value.val)
               ELSE SerializeObservation(value.val)
    /\ UNCHANGED <<client, built_by, calls, value, back>>

FromJson ==
    /\ value.ty = "StationVisibility"
    /\ wire.j # "none"
    /\ back = "none"
    /\ back' = DeserializeVisibility(wire)
    /\ UNCHANGED <<client, built_by, calls, value, wire>>

---------------------------------------------------------------------------
(* Specifications *)

InitClient ==
    \E api_key \in ApiKeys :
        \/ client = New(api_key) /\ built_by = "new"
        \/ client = WithClient(api_key, SuppliedClient) /\ built_by = "with_client"
        \/ client = GetApi /\ built_by = "get_api"

\* a client, and no call made yet
Init ==
    /\ InitClient
    /\ calls = [c \in CallIds |-> IdleCall]
    /\ value = NoValue
    /\ wire = NoJson
    /\ back = "none"

\* NumCalls calls on one client, interleaved in every way
Next ==
    \E c \in CallIds :
        \/ \E stations \in SampleStationLists : RegisterStations(c, stations)
        \/ \E observations \in SampleObservationLists : RecordObservations(c, observations)
        \/ \E outcome \in SampleOutcomes : RegisterStationsReturn(c, outcome)
        \/ \E outcome \in SampleOutcomes : RecordObservationsReturn(c, outcome)

Spec == Init /\ [][Next]_vars

\* one call, over every input of up to MaxItems items and every outcome
NextCall ==
    \/ \E stations \in StationLists : RegisterStations(1, stations)
    \/ \E observations \in ObservationLists : RecordObservations(1, observations)
    \/ \E outcome \in Outcomes : RegisterStationsReturn(1, outcome)
    \/ \E outcome \in Outcomes : RecordObservationsReturn(1, outcome)

SpecCall == Init /\ [][NextCall]_vars

\* a value to serialize, and no client in use
InitSer ==
    /\ client = GetApi
    /\ built_by = "get_api"
    /\ calls = [c \in CallIds |-> IdleCall]
    /\ \/ \E v \in StationVisibility : value = [ty |-> "StationVisibility", val |-> v]
       \/ \E s \in Stations : value = [ty |-> "Station", val |-> s]
       \/ \E o \in Observations : value = [ty |-> "Observation", val |-> o]
    /\ wire = NoJson
    /\ back = "none"

NextSer == ToJson \/ FromJson

SpecSer == InitSer /\ [][NextSer]_vars

---------------------------------------------------------------------------
(* Properties *)

Started(c) == calls[c].pc # "idle"

Done(c) == calls[c].pc = "done"

Is4xxOr5xx(status) == status \in 400..599

\* C1, as stated: a call returns success if and only if the transport delivered a
\* response whose status is in 200..299; every other status and every transport
\* failure is an error.
C1_SuccessIff2xx ==
    \A c \in CallIds :
        Done(c) =>
            (calls[c].result = "Ok"
                <=> (calls[c].outcome.delivered /\ calls[c].outcome.status \in 200..299))

\* C1, amended: for both operations a call returns success if and only if the
\* transport delivered a response whose status is not a 4xx or 5xx status, so every
\* 2xx status succeeds, and so does a delivered 1xx, 3xx or 6xx-9xx status; every
\* 4xx and 5xx status and every transport failure is an error.
C1_SuccessIffNot4xx5xx ==
    \A c \in CallIds :
        Done(c) =>
            /\ calls[c].result \in {"Ok", "Err(transport)", "Err(status)"}
            /\ calls[c].result = "Ok"
                <=> (calls[c].outcome.delivered /\ ~Is4xxOr5xx(calls[c].outcome.status))
            /\ calls[c].outcome.delivered /\ calls[c].outcome.status \in 200..299
                => calls[c].result = "Ok"

\* a delivered 304 response, and the call has returned success
C1_Witness ==
    \E c \in CallIds :
        /\ Done(c)
        /\ calls[c].op = "record_observations"
        /\ calls[c].outcome.delivered
        /\ calls[c].outcome.status = 304
        /\ calls[c].result = "Ok"

\* C2: every call sends exactly one POST request over its whole lifetime: one from
\* the moment it is awaiting its response, and still one when it has returned,
\* whether with success, a transport failure or an error status.
C2_OneRequestPerCall ==
    \A c \in CallIds :
        /\ ~Started(c) => calls[c].sends = 0
        /\ Started(c) => calls[c].sends = 1 /\ calls[c].request.method = "POST"
        /\ Done(c) /\ calls[c].result # "Ok" => calls[c].sends = 1

\* two calls have failed, one on the transport and one on the status, after one
\* request each
C2_Witness ==
    \E c, d \in CallIds :
        /\ Done(c) /\ calls[c].result = "Err(transport)" /\ calls[c].sends = 1
        /\ calls[c].op = "register_stations"
        /\ Done(d) /\ calls[d].result = "Err(status)" /\ calls[d].sends = 1
        /\ calls[d].op = "record_observations"

ObservationWireNames ==
    [station_id |-> "station", time |-> "time", temperature |-> "temp",
     wind_speed |-> "wind", wind_direction |-> "winddir", wind_gust |-> "gust",
     relative_humidity |-> "rh", dew_point |-> "dewpoint", pressure |-> "pressure",
     precipitation |-> "precip", uv_index |-> "uv"]

Keys(json) == {json.members[i][1] : i \in 1..Len(json.members)}

SetFields(o) == {f \in DOMAIN o : o[f] # None}

\* C3: the keys of a serialized Observation are exactly the wire names of the
\* fields that are set, each once: an unset field is no key, a set field is one.
C3_KeysAreSetFields ==
    (value.ty = "Observation" /\ wire.j # "none") =>
        /\ wire.j = "object"
        /\ Cardinality(Keys(wire)) = Len(wire.members)
        /\ Keys(wire) = {ObservationWireNames[f] : f \in SetFields(value.val)}
        /\ \A f \in DOMAIN value.val :
               value.val[f] = None => ObservationWireNames[f] \notin Keys(wire)

\* the observation of tests::simple_report has been serialized
C3_Witness ==
    /\ value.ty = "Observation"
    /\ value.val = SimpleReport
    /\ wire.j = "object"
    /\ Keys(wire) = {"temp", "rh"}

\* C4: the URL of every request is the base URL, then "/", then the API key as
\* given; for a client built by new or with_client it is
\* https://stations.windy.com/pws/update/<api_key>.
C4_TargetUrl ==
    \A c \in CallIds :
        Started(c) =>
            LET url == calls[c].request.url
                b == Len(client.base_url)
            IN  /\ Len(url) = b + 1 + Len(client.api_key)
                /\ SubSeq(url, 1, b) = client.base_url
                /\ SubSeq(url, b + 1, b + 1) = "/"
                /\ SubSeq(url, b + 2, Len(url)) = client.api_key
                /\ built_by \in {"new", "with_client"} =>
                       url = "https://stations.windy.com/pws/update/" \o client.api_key

\* a request of a client built by with_client whose key holds ?, = and #
C4_Witness ==
    \E c \in CallIds :
        /\ Started(c)
        /\ built_by = "with_client"
        /\ client.api_key = "k?x=1#f"
        /\ calls[c].request.url = "https://stations.windy.com/pws/update/k?x=1#f"

\* C5: the body of a request is an object with one key, stations for
\* register_stations and observations for record_observations, whose value is an
\* array of the input's items, in order; an observation with no field set is an
\* empty object; method and URL are the same for both operations.
C5_BodyShape ==
    \A c \in CallIds :
        Started(c) =>
            LET req == calls[c].request
                input == calls[c].input
                register == calls[c].op = "register_stations"
            IN  /\ req.method = "POST"
                /\ req.url = client.base_url \o "/" \o client.api_key
                /\ req.body.j = "object"
                /\ Len(req.body.members) = 1
                /\ req.body.members[1][1] = IF register THEN "stations" ELSE "observations"
                /\ req.body.members[1][2].j = "array"
                /\ Len(req.body.members[1][2].items) = Len(input)
                /\ \A i \in 1..Len(input) :
                       LET item == req.body.members[1][2].items[i]
                       IN  IF register
                           THEN item = SerializeStation(input[i])
                           ELSE /\ item = SerializeObservation(input[i])
                                /\ input[i] = DefaultObservation => item = JObj(<<>>)

\* a record_observations request of two observations, the first with no field set
C5_Witness ==
    \E c \in CallIds :
        /\ Started(c)
        /\ calls[c].op = "record_observations"
        /\ calls[c].input = <<DefaultObservation, SimpleReport>>
        /\ calls[c].request.body.members[1][2].items[1] = JObj(<<>>)

VisibilityWireTokens == [Open |-> "Open", OnlyWindy |-> "Only Windy", Private |-> "Private"]

\* C6: Open is written "Open", OnlyWindy "Only Windy" and Private "Private";
\* reading a variant's token gives the variant back; the tokens are distinct.
C6_VisibilityRoundTrip ==
    /\ value.ty = "StationVisibility" =>
           /\ wire.j # "none" => wire = JStr(VisibilityWireTokens[value.val])
           /\ back # "none" => back = value.val
    /\ \A v, w \in StationVisibility :
           v # w => SerializeVisibility(v) # SerializeVisibility(w)

\* OnlyWindy has been written and read back
C6_Witness ==
    /\ value.ty = "StationVisibility"
    /\ value.val = "OnlyWindy"
    /\ wire = JStr("Only Windy")
    /\ back = "OnlyWindy"

StationKeys ==
    <<"station", "visibility", "name", "latitude", "longitude", "elevation",
      "tempheight", "windheight">>

StationKeysInOrder(json) ==
    /\ json.j = "object"
    /\ [i \in 1..Len(json.members) |-> json.members[i][1]] = StationKeys

\* C7, as stated: a Station is written as an object of the eight keys, in order,
\* each carrying the value of its field.
C7_StationValues ==
    (value.ty = "Station" /\ wire.j # "none") =>
        /\ StationKeysInOrder(wire)
        /\ wire.members[1][2] = JInt(value.val.id)
        /\ wire.members[2][2] = JStr(VisibilityWireTokens[value.val.visibility])
        /\ wire.members[3][2] = JStr(value.val.name)
        /\ wire.members[4][2] = JFloat(value.val.latitude)
        /\ wire.members[5][2] = JFloat(value.val.longitude)
        /\ wire.members[6][2] = JInt(value.val.elevation)
        /\ wire.members[7][2] = JInt(value.val.temp_height)
        /\ wire.members[8][2] = JInt(value.val.wind_height)

FloatOrNull(f) == IF f \in {"NaN", "inf", "-inf"} THEN JNull ELSE JFloat(f)

\* C7, amended: a Station is written as an object of the eight keys, in order, none
\* omitted, each carrying the value of its field, except that a latitude or
\* longitude that is not a finite number (NaN, an infinity) is written as null.
C7_StationValuesFinite ==
    (value.ty = "Station" /\ wire.j # "none") =>
        /\ StationKeysInOrder(wire)
        /\ wire.members[1][2] = JInt(value.val.id)
        /\ wire.members[2][2] = JStr(VisibilityWireTokens[value.val.visibility])
        /\ wire.members[3][2] = JStr(value.val.name)
        /\ wire.members[4][2] = FloatOrNull(value.val.latitude)
        /\ wire.members[5][2] = FloatOrNull(value.val.longitude)
        /\ wire.members[6][2] = JInt(value.val.elevation)
        /\ wire.members[7][2] = JInt(value.val.temp_height)
        /\ wire.members[8][2] = JInt(value.val.wind_height)

\* a station whose latitude is NaN has been serialized, with a null latitude
C7_Witness ==
    /\ value.ty = "Station"
    /\ value.val.latitude = "NaN"
    /\ wire.j = "object"
    /\ wire.members[4] = <<"latitude", JNull>>

\* C8: the result of a call does not depend on the response body: calls whose
\* responses have the same status have the same result, a 2xx status succeeds and
\* a 500 fails, whatever the body and the content type.
C8_BodyIrrelevant ==
    /\ \A c, d \in CallIds :
           (/\ Done(c) /\ Done(d)
            /\ calls[c].outcome.delivered /\ calls[d].outcome.delivered
            /\ calls[c].outcome.status = calls[d].outcome.status)
               => calls[c].result = calls[d].result
    /\ \A c \in CallIds :
           Done(c) /\ calls[c].outcome.delivered =>
               /\ calls[c].outcome.status \in 200..299 => calls[c].result = "Ok"
               /\ calls[c].outcome.status = 500 => calls[c].result = "Err(status)"

\* two calls got the status 200 with different bodies, and both succeeded
C8_Witness ==
    \E c, d \in CallIds :
        /\ Done(c) /\ Done(d)
        /\ calls[c].outcome.status = 200 /\ calls[d].outcome.status = 200
        /\ calls[c].outcome.body # calls[d].outcome.body
        /\ calls[c].outcome.content_type # calls[d].outcome.content_type
        /\ calls[c].result = "Ok" /\ calls[d].result = "Ok"

C9_State ==
    \A c, d \in CallIds :
        /\ (Started(c) /\ Started(d) /\ calls[c].op = calls[d].op
               /\ calls[c].input = calls[d].input)
              => calls[c].request = calls[d].request
        /\ (Done(c) /\ Done(d) /\ calls[c].outcome = calls[d].outcome)
              => calls[c].result = calls[d].result

C9_Step ==
    /\ client' = client
    /\ \A c \in CallIds :
           calls'[c] # calls[c] => \A d \in CallIds \ {c} : calls'[d] = calls[d]

\* C9: with several calls interleaved on one client, no step changes api_key or
\* base_url, a step of one call changes no other call, calls with the same
\* operation and arguments send the same request, and calls with the same response
\* return the same result.
C9_Independent == [](C9_State) /\ [][C9_Step]_vars

\* two calls with the same operation and arguments have returned, one with an
\* error and one with success
C9_Witness ==
    \E c, d \in CallIds :
        /\ Done(c) /\ Done(d)
        /\ calls[c].op = calls[d].op
        /\ calls[c].input = calls[d].input
        /\ calls[c].result = "Err(status)"
        /\ calls[d].result = "Ok"

\* C10: no input is rejected locally: a call with any input, the empty one and one
\* with a wind direction above 359 included, has sent its POST; the array of an
\* empty input is empty; the result follows from the transport and the status.
C10_NoLocalRejection ==
    \A c \in CallIds :
        Started(c) =>
            /\ calls[c].sends = 1
            /\ calls[c].request.method = "POST"
            /\ calls[c].input = <<>> => calls[c].request.body.members[1][2] = JArr(<<>>)
            /\ Done(c) =>
                   /\ calls[c].outcome \in Outcomes
                   /\ ~calls[c].outcome.delivered => calls[c].result = "Err(transport)"
                   /\ calls[c].outcome.delivered =>
                          calls[c].result =
                              IF Is4xxOr5xx(calls[c].outcome.status)
                              THEN "Err(status)" ELSE "Ok"

\* a record_observations call with the empty input has sent an empty array and
\* returned success
C10_Witness ==
    \E c \in CallIds :
        /\ Done(c)
        /\ calls[c].op = "record_observations"
        /\ calls[c].input = <<>>
        /\ calls[c].request.body = JObj(<< <<"observations", JArr(<<>>)>> >>)
        /\ calls[c].result = "Ok"

====
